---- MODULE Spec2Model ----
(***************************************************************************)
(* Model of the WeWork Notify API clients (custom_components/wework_notify *)
(* api.py): the application client's token cache, its token lock, the      *)
(* send / refresh / retry protocol of async_send_message, and the payload  *)
(* builder with its recipient merge; and of the integration's setup and    *)
(* unload of config entries (__init__.py) with the send_message service.   *)
(*                                                                         *)
(* The coroutines run on one asyncio event loop: a coroutine runs without  *)
(* interruption until it suspends, and it suspends only on a contended     *)
(* token lock and on a network call.  One action of the model is therefore *)
(* the code a send call runs between two suspensions.                      *)
(***************************************************************************)
EXTENDS Integers, Sequences, FiniteSets, TLC

(***************************************************************************)
(* Bounds of the model.                                                    *)
(***************************************************************************)
NumCalls == 2
MaxTime == 1
MaxLen == 3
NumEntries == 4
MaxRegisters == 3

(***************************************************************************)
(* Program constants.                                                      *)
(***************************************************************************)
TOKEN_MARGIN == 30
DEFAULT_EXPIRES_IN == 7200
TOKEN_RETRYABLE_ERROR_CODES == {40014, 42001, 40001}
SUPPORTED_MESSAGE_TYPES == {"text", "markdown", "image"}
SERVICE_SEND_MESSAGE == "send_message"

(***************************************************************************)
(* Optional strings.  A Python str is a sequence of one-character strings, *)
(* None is the absent value.                                               *)
(***************************************************************************)
None == [some |-> FALSE, val |-> <<>>]
Str(s) == [some |-> TRUE, val |-> s]
\* Python truthiness of an optional str: neither None nor "".
Truthy(x) == x.some /\ x.val # <<>>

IsSpace(ch) == ch = " "

RECURSIVE LStrip(_)
LStrip(s) == IF s # <<>> /\ IsSpace(Head(s)) THEN LStrip(Tail(s)) ELSE s

RECURSIVE RStrip(_)
RStrip(s) ==
  IF s # <<>> /\ IsSpace(s[Len(s)]) THEN RStrip(SubSeq(s, 1, Len(s) - 1)) ELSE s

\* str.strip()
Strip(s) == RStrip(LStrip(s))

\* str.split("|"): always at least one part, empty parts are kept.
RECURSIVE Split(_)
Split(s) ==
  IF \E i \in 1..Len(s) : s[i] = "|"
    THEN LET i == CHOOSE k \in 1..Len(s) :
                    s[k] = "|" /\ \A j \in 1..(k - 1) : s[j] # "|"
         IN <<SubSeq(s, 1, i - 1)>> \o Split(SubSeq(s, i + 1, Len(s)))
    ELSE <<s>>

\* "|".join(parts)
RECURSIVE Join(_)
Join(parts) ==
  IF parts = <<>> THEN <<>>
  ELSE IF Len(parts) = 1 THEN parts[1]
  ELSE parts[1] \o <<"|">> \o Join(Tail(parts))

Contains(seq, x) == \E i \in 1..Len(seq) : seq[i] = x

\* The loop of _merge_recipient: strip each part, keep it when it is not
\* empty and not yet in `existing`.
RECURSIVE MergeLoop(_, _)
MergeLoop(parts, existing) ==
  IF parts = <<>> THEN existing
  ELSE LET part == Strip(Head(parts))
       IN IF part # <<>> /\ ~Contains(existing, part)
            THEN MergeLoop(Tail(parts), Append(existing, part))
            ELSE MergeLoop(Tail(parts), existing)

_merge_recipient(override, default) ==
  LET o == IF override.some THEN Str(Strip(override.val)) ELSE None
      d == IF default.some THEN Str(Strip(default.val)) ELSE None
  IN IF Truthy(o) /\ Truthy(d)
       THEN Str(Join(MergeLoop(Split(o.val) \o Split(d.val), <<>>)))
       ELSE IF Truthy(o) THEN o ELSE d

\* The list comprehension of _split_optional.
RECURSIVE StripNonEmpty(_)
StripNonEmpty(parts) ==
  IF parts = <<>> THEN <<>>
  ELSE IF Strip(Head(parts)) # <<>>
    THEN <<Strip(Head(parts))>> \o StripNonEmpty(Tail(parts))
    ELSE StripNonEmpty(Tail(parts))

\* _split_optional: None for a falsy value, else the list (maybe empty).
_split_optional(value) ==
  IF ~Truthy(value) THEN [some |-> FALSE, val |-> <<>>]
  ELSE [some |-> TRUE, val |-> StripNonEmpty(Split(value.val))]

(***************************************************************************)
(* Payloads.  A key the code leaves out of the dict is None here; the      *)
(* object under the message type key ("text": {...}) is flattened into     *)
(* content, media_id, base64, md5 and the two mention lists.               *)
(***************************************************************************)
NoPayload ==
  [msgtype |-> "", touser |-> None, toparty |-> None, totag |-> None,
   content |-> None, media_id |-> None, base64 |-> None, md5 |-> None,
   mentioned_list |-> None, mentioned_mobile_list |-> None]

\* WeWorkAppClient._build_payload; ok = FALSE is a raised WeWorkError.
WeWorkAppClient_build_payload(message_type, data, defaults) ==
  LET message == data.message
      to_user == _merge_recipient(data.to_user, defaults.to_user)
      to_party == _merge_recipient(data.to_party, defaults.to_party)
      to_tag == _merge_recipient(data.to_tag, defaults.to_tag)
      base == [msgtype |-> message_type,
               touser |-> IF Truthy(to_user) THEN to_user ELSE None,
               toparty |-> IF Truthy(to_party) THEN to_party ELSE None,
               totag |-> IF Truthy(to_tag) THEN to_tag ELSE None,
               content |-> None, media_id |-> None, base64 |-> None,
               md5 |-> None, mentioned_list |-> None,
               mentioned_mobile_list |-> None]
  IN IF message_type \in {"text", "markdown"} /\ ~Truthy(message)
       THEN [ok |-> FALSE, payload |-> NoPayload]
     ELSE IF ~(Truthy(to_user) \/ Truthy(to_party) \/ Truthy(to_tag))
       THEN [ok |-> FALSE, payload |-> NoPayload]
     ELSE IF message_type \in {"text", "markdown"}
       THEN [ok |-> TRUE, payload |-> [base EXCEPT !.content = message]]
     ELSE IF message_type = "image"
       THEN IF ~Truthy(data.image_media_id)
              THEN [ok |-> FALSE, payload |-> NoPayload]
              ELSE [ok |-> TRUE,
                    payload |-> [base EXCEPT !.media_id = data.image_media_id]]
     ELSE [ok |-> TRUE, payload |-> base]

\* Line 248 with `and` for `or`: only an image without both fields fails.
ImageIncompleteBoth(base64_data, md5_hash) ==
  ~Truthy(base64_data) /\ ~Truthy(md5_hash)

\* The condition of line 248.
ImageIncomplete(base64_data, md5_hash) ==
  ~Truthy(base64_data) \/ ~Truthy(md5_hash)

\* WeWorkBotClient._build_payload; ok = FALSE is a raised WeWorkError.
WeWorkBotClient_build_payload(message_type, data) ==
  LET message == data.message
      mentioned_list == _split_optional(data.mentioned_list)
      mentioned_mobile_list == _split_optional(data.mentioned_mobile_list)
      base64_data == data.image_base64
      md5_hash == data.image_md5
      base == [NoPayload EXCEPT !.msgtype = message_type]
  IN IF message_type = "text"
       THEN IF ~Truthy(message)
              THEN [ok |-> FALSE, payload |-> NoPayload]
              ELSE [ok |-> TRUE,
                    payload |->
                      [base EXCEPT
                         !.content = message,
                         !.mentioned_list =
                           IF Truthy(mentioned_list) THEN mentioned_list
                           ELSE None,
                         !.mentioned_mobile_list =
                           IF Truthy(mentioned_mobile_list)
                             THEN mentioned_mobile_list
                           ELSE None]]
     ELSE IF message_type = "markdown"
       THEN IF ~Truthy(message)
              THEN [ok |-> FALSE, payload |-> NoPayload]
              ELSE [ok |-> TRUE, payload |-> [base EXCEPT !.content = message]]
     ELSE IF message_type = "image"
       THEN IF ImageIncomplete(base64_data, md5_hash)
              THEN [ok |-> FALSE, payload |-> NoPayload]
              ELSE [ok |-> TRUE,
                    payload |-> [base EXCEPT !.base64 = base64_data,
                                             !.md5 = md5_hash]]
     ELSE [ok |-> FALSE, payload |-> NoPayload]


(***************************************************************************)
(* The send calls and their inputs.  One application client is modelled:   *)
(* token, expiry and lock are attributes of the instance (lines 85-87), so *)
(* clients share no state.                                                 *)
(***************************************************************************)
Calls == 1..NumCalls

\* The `defaults` the client is constructed with (__init__, line 88).
Defaults == [to_user |-> None, to_party |-> None, to_tag |-> None]

\* The `data` dicts the send calls are made with.
Req(mt, msg, user, media) ==
  [message_type |-> mt, message |-> msg, to_user |-> user,
   to_party |-> None, to_tag |-> None, image_media_id |-> media,
   image_base64 |-> None, image_md5 |-> None,
   mentioned_list |-> None, mentioned_mobile_list |-> None]

SendRequests ==
  { Req("text", Str(<<"h", "i">>), Str(<<"a">>), None),
    Req("text", Str(<<"h", "i">>), Str(<<" ">>), None),
    Req("text", Str(<<>>), Str(<<"a">>), None),
    Req("markdown", None, Str(<<"a">>), None),
    Req("image", None, Str(<<"a">>), None),
    Req("file", Str(<<"h", "i">>), Str(<<"a">>), None) }

\* An errcode is <<>> when the field is absent, else a one-element sequence.
NoCode == <<>>
CodeTruthy(e) == e # <<>> /\ e[1] # 0
Retryable(e) == e # <<>> /\ e[1] \in TOKEN_RETRYABLE_ERROR_CODES

\* Tokens are strings; "None" is Python None, "" the empty string.
NoToken == "None"
TokenTruthy(t) == t \notin {"None", ""}

\* expires_in of a token response (line 188); <<>> when the field is absent.
ExpiresIn(x) == IF x = <<>> THEN DEFAULT_EXPIRES_IN ELSE x[1]

(***************************************************************************)
(* What a network call can end with.  "ClientError" is any aiohttp         *)
(* ClientError; "TimeoutError" is the asyncio.TimeoutError that aiohttp    *)
(* raises when the total timeout of the request (timeout=DEFAULT_TIMEOUT)  *)
(* elapses, which is not a ClientError.                                    *)
(***************************************************************************)
Resp(k, e, t, x) ==
  [kind |-> k, errcode |-> e, access_token |-> t, expires_in |-> x]

TransportFailures ==
  { Resp("ClientError", NoCode, NoToken, <<>>),
    Resp("TimeoutError", NoCode, NoToken, <<>>) }

SendResponses ==
  TransportFailures \cup
  { Resp("json", e, NoToken, <<>>) :
      e \in {<<>>, <<0>>, <<40014>>, <<42001>>, <<40001>>, <<45009>>} }

TokenResponses ==
  TransportFailures \cup
  { Resp("json", e, t, x) :
      e \in {<<>>, <<0>>, <<40001>>},
      t \in {"None", "", "t1", "t2"},
      x \in {<<>>, <<31>>} }

IsTransport(resp) == resp.kind \in {"ClientError", "TimeoutError"}

\* The kind of an answer of the send endpoint, by the provider's protocol:
\* a transport failure, errcode 0 or absent, one of the three codes of
\* const.py line 42, or another code.
AnswerKind(resp) ==
  IF IsTransport(resp) THEN "transport"
  ELSE IF resp.errcode = <<>> THEN "nocode"
  ELSE IF resp.errcode[1] = 0 THEN "zero"
  ELSE IF resp.errcode[1] \in {40014, 42001, 40001} THEN "retryable"
  ELSE "other"

\* How a call ends: kind is "none" while it runs, "ok", or the exception type.
Outcome(k, e) == [kind |-> k, errcode |-> e]
Running == Outcome("none", NoCode)
Failed(o) == o.kind \notin {"none", "ok"}

\* _do_send after the response: the exception raised, or "ok".
WeWorkAppClient_do_send(resp) ==
  IF resp.kind = "ClientError" THEN Outcome("WeWorkError", NoCode)
  ELSE IF resp.kind = "TimeoutError" THEN Outcome("TimeoutError", NoCode)
  ELSE IF CodeTruthy(resp.errcode) THEN Outcome("WeWorkError", resp.errcode)
  ELSE Outcome("ok", NoCode)

\* Lines 179-194 without the check of lines 189-190.
RefreshOutcomeNoTokenCheck(resp) ==
  IF resp.kind = "ClientError" THEN Outcome("WeWorkError", NoCode)
  ELSE IF resp.kind = "TimeoutError" THEN Outcome("TimeoutError", NoCode)
  ELSE IF CodeTruthy(resp.errcode) THEN Outcome("WeWorkError", resp.errcode)
  ELSE Outcome("ok", NoCode)

\* _refresh_token after the response (lines 179-194): the exception raised,
\* or "ok" when the pair is stored.
RefreshOutcome(resp) ==
  IF resp.kind = "ClientError" THEN Outcome("WeWorkError", NoCode)
  ELSE IF resp.kind = "TimeoutError" THEN Outcome("TimeoutError", NoCode)
  ELSE IF CodeTruthy(resp.errcode) THEN Outcome("WeWorkError", resp.errcode)
  ELSE IF ~TokenTruthy(resp.access_token) THEN Outcome("WeWorkError", NoCode)
  ELSE Outcome("ok", NoCode)

(***************************************************************************)
(* State.                                                                  *)
(***************************************************************************)
VARIABLES
  now,                  \* time.monotonic()
  _token,               \* self._token
  _token_expire_time,   \* self._token_expire_time
  _token_lock,          \* self._token_lock: the calls queued on it in
                        \* arrival order; the first one holds it
  pc,                   \* per call: where the coroutine is suspended
  payload,              \* per call: local `payload`
  force,                \* per call: argument of its _refresh_token call
  token,                \* per call: local `token`
  outcome,              \* per call: how it ended
  \* History of a call, recorded for the properties only.
  posts,                \* number of POSTs it sent
  forced,               \* number of _refresh_token(force=True) it made
  refreshed,            \* what its _refresh_token(force=True) returned
  first,                \* the kind of answer its first POST had
  final,                \* the answer that ended it, if one did
  transport,            \* a network call of it ended in a transport failure
  req,                  \* the `data` it was made with
  ensured,              \* what its _ensure_token returned
  fast,                 \* its _ensure_token returned on line 163 (kept
                        \* until its first POST is answered)
  sawEmpty,             \* its _ensure_token found the cache Empty (kept
                        \* until its first POST is answered)
  seen,                 \* the last token request that ended while it
                        \* waited for the lock (kept for one step after
                        \* it got the lock)
  \* History of the _ensure_token calls that found the cache Empty and
  \* overlap in time (forgotten when the last of them is over).
  firstGet,             \* how the first token request of them ended
  emptyGets,            \* the GETs they sent (counted up to 2)
  emptyToks,            \* the tokens they returned
  emptyLate,            \* one of them got the lock when the cached token had
                        \* no more than the margin left
  \* The robot client and the payload functions.
  bot,                  \* per call of WeWorkBotClient.async_send_message: where
                        \* it is, its payload, its POSTs and how it ended
  args,                 \* the arguments a payload function is called with
  result,               \* what it returned
  \* The integration (__init__.py).
  hass,                 \* hass.data[DOMAIN]: the runtime client of each
                        \* entry; hass.services: the services of DOMAIN
  ops                   \* history: the last setup or unload and what it did
                        \* to the service, and the calls of async_register
                        \* and async_remove so far

callvars == <<pc, payload, force, token, outcome>>
callhist == <<posts, forced, refreshed, first, final, transport, req,
              ensured, fast, sawEmpty, seen>>
emptyhist == <<firstGet, emptyGets, emptyToks, emptyLate>>
appvars == <<now, _token, _token_expire_time, _token_lock, callvars, callhist,
             emptyhist>>
vars == <<appvars, bot, args, result, hass, ops>>

NoResp == Resp("none", NoCode, NoToken, <<>>)
NoSeen == [kind |-> "none", tok |-> NoToken]
NoReq == Req("", None, None, None)

\* A robot call that has not started.
BotIdle ==
  [pc |-> "idle", req |-> NoReq, payload |-> NoPayload, posts |-> 0,
   outcome |-> Running, final |-> NoResp]

\* No payload function has been called, or it has not returned yet.
NoArgs == [fn |-> "none"]
NoResult == [called |-> FALSE]
Value(v) == [called |-> TRUE, value |-> v]

\* WeWorkAppClient.__init__ (lines 85-87); no call has started.
AppInit ==
  /\ now = 0
  /\ _token = NoToken
  /\ _token_expire_time = 0
  /\ _token_lock = <<>>
  /\ pc = [p \in Calls |-> "idle"]
  /\ payload = [p \in Calls |-> NoPayload]
  /\ force = [p \in Calls |-> FALSE]
  /\ token = [p \in Calls |-> NoToken]
  /\ outcome = [p \in Calls |-> Running]
  /\ posts = [p \in Calls |-> 0]
  /\ forced = [p \in Calls |-> 0]
  /\ refreshed = [p \in Calls |-> NoToken]
  /\ first = [p \in Calls |-> "none"]
  /\ final = [p \in Calls |-> NoResp]
  /\ transport = [p \in Calls |-> FALSE]
  /\ req = [p \in Calls |-> NoReq]
  /\ ensured = [p \in Calls |-> NoToken]
  /\ fast = [p \in Calls |-> FALSE]
  /\ sawEmpty = [p \in Calls |-> FALSE]
  /\ seen = [p \in Calls |-> NoSeen]
  /\ firstGet = "none"
  /\ emptyGets = 0
  /\ emptyToks = {}
  /\ emptyLate = FALSE

\* The config entries of the integration, and entry.data[CONF_ENTRY_TYPE] of
\* each.
Entries == 1..NumEntries
EntryType(entry) == IF entry % 2 = 1 THEN "app" ELSE "bot"

\* hass.data[DOMAIN] has no key for the entry.
NoRuntime == "None"

\* No setup or unload has run.
NoOps ==
  [op |-> "none", entry |-> 0, registered |-> FALSE, removed |-> FALSE,
   registers |-> 0, removes |-> 0]

\* The integration after async_setup (__init__.py line 73): no entry is set
\* up, no service is registered.
HassInit ==
  /\ hass = [data |-> [entry \in Entries |-> NoRuntime], services |-> {}]
  /\ ops = NoOps

\* The clients after construction (lines 73-88, 200-202).
Init ==
  /\ AppInit
  /\ bot = [p \in Calls |-> BotIdle]
  /\ args = NoArgs
  /\ result = NoResult
  /\ HassInit

(***************************************************************************)
(* The token cache and the token lock.                                     *)
(***************************************************************************)
\* Line 162 with <= for <.
TokenValidInclusive ==
  TokenTruthy(_token) /\ now <= _token_expire_time - TOKEN_MARGIN

\* The condition of line 162.
TokenValid ==
  TokenTruthy(_token) /\ now < _token_expire_time - TOKEN_MARGIN

\* Line 168 left out: every caller that gets the lock sends a request.
RecheckNever(f) == FALSE

\* Line 168 without `not force`.
RecheckIgnoringForce(f) ==
  TokenTruthy(_token) /\ now < _token_expire_time - TOKEN_MARGIN

\* The condition of line 168, evaluated under the lock.
Recheck(f) ==
  TokenTruthy(_token) /\ ~f /\ now < _token_expire_time - TOKEN_MARGIN

\* No mutual exclusion: every caller enters at once.
LockFreeAlways == TRUE

\* asyncio.Lock.acquire returns at once only when the lock is not held and
\* nobody waits for it.
LockFree == _token_lock = <<>>

RECURSIVE Without(_, _)
Without(q, p) ==
  IF q = <<>> THEN <<>>
  ELSE IF Head(q) = p THEN Without(Tail(q), p)
  ELSE <<Head(q)>> \o Without(Tail(q), p)

\* Line 167 releasing the lock only when the block is left by return: after
\* a raise the lock stays held by a call that is gone (0 is no call).
ReleaseOnReturnOnly(p, raised) ==
  IF raised THEN <<0>> \o Without(_token_lock, p) ELSE Without(_token_lock, p)

\* Call p leaves `async with self._token_lock` (line 167), by return or by
\* an exception: the lock is released either way, and the next in line is
\* first.
Release(p, raised) == Without(_token_lock, p)

\* Lines 99-101 with one code missing from the set.
NeedsRetryTwoCodes(o) ==
  o.kind = "WeWorkError" /\ o.errcode # <<>> /\ o.errcode[1] \in {40014, 42001}

\* Lines 99-101 retrying on every provider errcode.
NeedsRetryAnyCode(o) == o.kind = "WeWorkError" /\ o.errcode # <<>>

\* Lines 99-101 as `if err.errcode and err.errcode not in ...: raise`.
NeedsRetryNoCode(o) ==
  o.kind = "WeWorkError" /\ (o.errcode = <<>> \/ Retryable(o.errcode))

\* The except clause of async_send_message (lines 99-101): the error of the
\* first send leads to refresh and retry.
NeedsRetry(o) == o.kind = "WeWorkError" /\ Retryable(o.errcode)

\* Line 103 dropping the returned token: the retry reuses the old one.
RetryTokenStale(old, returned) == old

\* Line 103: the token of the retried send is the one _refresh_token returns.
RetryToken(old, returned) == returned

\* Lines 92-95 with the payload built only after the token is there.
AcceptedUnchecked(data) == data.message_type \in SUPPORTED_MESSAGE_TYPES

\* Lines 92-95 let the request through to _ensure_token.
Accepted(data) ==
  /\ data.message_type \in SUPPORTED_MESSAGE_TYPES
  /\ WeWorkAppClient_build_payload(data.message_type, data, Defaults).ok

(***************************************************************************)
(* The steps of a send call.  A finished call hands its result to its      *)
(* caller in the same event-loop step (Return); nothing else runs between. *)
(***************************************************************************)
NoneDone == \A q \in Calls : pc[q] # "done"

\* The call leaves async_send_message: by return ("ok") or by an exception.
Finish(p, o, resp) ==
  /\ pc' = [pc EXCEPT ![p] = "done"]
  /\ outcome' = [outcome EXCEPT ![p] = o]
  /\ final' = [final EXCEPT ![p] = resp]

\* _do_send is entered with token t: the POST goes out and the call waits
\* for the answer (line 109).
Post(p, t, stage) ==
  /\ pc' = [pc EXCEPT ![p] = stage]
  /\ token' = [token EXCEPT ![p] = t]
  /\ posts' = [posts EXCEPT ![p] = @ + 1]

\* _refresh_token(f) is entered (line 167).  With the lock free the call
\* takes it and goes on to the GET of line 173 (line 168 cannot hold here:
\* force is true, or line 162 has just been false); else it waits in line.
EnterRefresh(p, f) ==
  /\ force' = [force EXCEPT ![p] = f]
  /\ seen' = [seen EXCEPT ![p] = NoSeen]
  /\ _token_lock' = Append(_token_lock, p)
  /\ pc' = [pc EXCEPT ![p] = IF LockFree THEN "get" ELSE "wait"]

\* _refresh_token returns t to its caller, which goes on to _do_send:
\* line 96 and line 98 after _ensure_token, lines 103-104 after the forced
\* refresh.
Returned(p, t) ==
  IF force[p]
    THEN /\ Post(p, RetryToken(token[p], t), "send2")
         /\ refreshed' = [refreshed EXCEPT ![p] = t]
         /\ UNCHANGED <<ensured, emptyToks>>
    ELSE /\ Post(p, t, "send1")
         /\ ensured' = [ensured EXCEPT ![p] = t]
         /\ emptyToks' = IF sawEmpty[p] THEN emptyToks \cup {t} ELSE emptyToks
         /\ UNCHANGED refreshed

\* One more GET from an _ensure_token call that found the cache Empty.
CountEmptyGet(isEmpty) ==
  emptyGets' = IF isEmpty /\ emptyGets < 2 THEN emptyGets + 1 ELSE emptyGets

\* Call p is no longer one of the _ensure_token calls that found the cache
\* Empty; their history is forgotten with the last of them.
LeaveEmpty(p) ==
  /\ sawEmpty' = [sawEmpty EXCEPT ![p] = FALSE]
  /\ IF \A q \in Calls \ {p} : ~sawEmpty[q]
       THEN /\ firstGet' = "none"
            /\ emptyGets' = 0
            /\ emptyToks' = {}
            /\ emptyLate' = FALSE
       ELSE UNCHANGED emptyhist

\* async_send_message from its entry to its first suspension (lines 91-96,
\* 161-169, 106-114).
async_send_message(p) ==
  /\ NoneDone
  /\ pc[p] = "idle"
  /\ \E data \in SendRequests :
       LET message_type == data.message_type
           built == WeWorkAppClient_build_payload(message_type, data, Defaults)
       IN /\ req' = [req EXCEPT ![p] = data]
          /\ IF ~Accepted(data)
               THEN /\ Finish(p, Outcome("WeWorkError", NoCode), NoResp)
                    /\ UNCHANGED <<payload, token, posts, force, _token_lock,
                                   ensured, fast, sawEmpty, seen, emptyGets>>
               ELSE /\ payload' = [payload EXCEPT ![p] = built.payload]
                    /\ sawEmpty' = [sawEmpty EXCEPT ![p] = ~TokenTruthy(_token)]
                    /\ UNCHANGED <<outcome, final>>
                    /\ IF TokenValid
                         THEN /\ Post(p, _token, "send1")
                              /\ ensured' = [ensured EXCEPT ![p] = _token]
                              /\ fast' = [fast EXCEPT ![p] = TRUE]
                              /\ UNCHANGED <<force, _token_lock, seen, emptyGets>>
                         ELSE /\ EnterRefresh(p, FALSE)
                              /\ CountEmptyGet(~TokenTruthy(_token) /\ LockFree)
                              /\ UNCHANGED <<token, posts, ensured, fast>>
  /\ UNCHANGED <<now, _token, _token_expire_time, forced, refreshed, first,
                 transport, firstGet, emptyToks, emptyLate>>
  /\ UNCHANGED <<bot, args, result, hass, ops>>

\* A call that waited for the lock gets it (lines 167-173).
_refresh_token_resume(p) ==
  /\ NoneDone
  /\ pc[p] = "wait"
  /\ _token_lock # <<>>
  /\ Head(_token_lock) = p
  /\ emptyLate' = (emptyLate \/ (sawEmpty[p] /\ ~force[p] /\ firstGet = "ok"
                                  /\ ~(now < _token_expire_time - TOKEN_MARGIN)))
  /\ IF Recheck(force[p])
       THEN /\ _token_lock' = Release(p, FALSE)
            /\ Returned(p, _token)
            /\ UNCHANGED emptyGets
       ELSE /\ pc' = [pc EXCEPT ![p] = "get"]
            /\ CountEmptyGet(sawEmpty[p] /\ ~force[p])
            /\ UNCHANGED <<token, posts, ensured, refreshed, _token_lock,
                           emptyToks>>
  /\ UNCHANGED <<now, _token, _token_expire_time, payload, force, outcome,
                 forced, first, final, transport, req, fast, sawEmpty, seen,
                 firstGet>>
  /\ UNCHANGED <<bot, args, result, hass, ops>>

\* Lines 187-192 with the attribute assigned where the field is read, before
\* the check of line 189.
StoredTokenEarly(resp) ==
  IF IsTransport(resp) \/ CodeTruthy(resp.errcode) THEN _token
  ELSE resp.access_token

\* self._token after the response (lines 179-192): assigned on line 192 only.
StoredToken(resp) ==
  IF RefreshOutcome(resp).kind = "ok" THEN resp.access_token ELSE _token

\* The token request of the lock holder ends with one of `responses` (lines
\* 178-194); after a success the call goes on to its first or second POST.
RefreshResponse(p, responses) ==
  /\ NoneDone
  /\ pc[p] = "get"
  /\ \E resp \in responses :
       LET o == RefreshOutcome(resp)
           access_token == resp.access_token
           expires_in == ExpiresIn(resp.expires_in)
           ok == o.kind = "ok"
       IN /\ _token_lock' = Release(p, ~ok)
          /\ transport' = [transport EXCEPT ![p] = @ \/ IsTransport(resp)]
          /\ seen' = [q \in Calls |->
                        IF q = p THEN NoSeen
                        ELSE IF Contains(_token_lock, q)
                          THEN [kind |-> IF ok THEN "ok" ELSE "fail",
                                tok |-> IF ok THEN access_token ELSE NoToken]
                          ELSE seen[q]]
          /\ firstGet' =
               IF firstGet # "none" \/ ~sawEmpty[p] \/ force[p] THEN firstGet
               ELSE IF ok /\ expires_in > TOKEN_MARGIN THEN "ok" ELSE "bad"
          /\ _token' = StoredToken(resp)
          /\ IF ok
               THEN /\ _token_expire_time' = now + expires_in
                    /\ UNCHANGED <<outcome, final>>
                    /\ Returned(p, access_token)
               ELSE /\ Finish(p, o, resp)
                    /\ UNCHANGED <<_token_expire_time, token, posts,
                                   ensured, refreshed, emptyToks>>
  /\ UNCHANGED <<now, payload, force, forced, first, req, fast, sawEmpty,
                 emptyGets, emptyLate>>
  /\ UNCHANGED <<bot, args, result, hass, ops>>

\* The token request ends with a response the provider sends.
_refresh_token_response(p) == RefreshResponse(p, TokenResponses)

\* The first POST ends (lines 115-122, 97-103).
_do_send_first(p) ==
  /\ NoneDone
  /\ pc[p] = "send1"
  /\ \E resp \in SendResponses :
       LET o == WeWorkAppClient_do_send(resp)
       IN /\ first' = [first EXCEPT ![p] = AnswerKind(resp)]
          /\ transport' = [transport EXCEPT ![p] = @ \/ IsTransport(resp)]
          /\ IF NeedsRetry(o)
               THEN /\ forced' = [forced EXCEPT ![p] = @ + 1]
                    /\ EnterRefresh(p, TRUE)
                    /\ UNCHANGED <<outcome, final>>
               ELSE /\ Finish(p, o, resp)
                    /\ seen' = [seen EXCEPT ![p] = NoSeen]
                    /\ UNCHANGED <<forced, force, _token_lock>>
  /\ fast' = [fast EXCEPT ![p] = FALSE]
  /\ LeaveEmpty(p)
  /\ UNCHANGED <<now, _token, _token_expire_time, payload, token, posts,
                 refreshed, req, ensured>>
  /\ UNCHANGED <<bot, args, result, hass, ops>>

\* The retried POST ends (lines 104, 115-122): whatever it is, the call ends.
_do_send_retry(p) ==
  /\ NoneDone
  /\ pc[p] = "send2"
  /\ \E resp \in SendResponses :
       /\ transport' = [transport EXCEPT ![p] = @ \/ IsTransport(resp)]
       /\ seen' = [seen EXCEPT ![p] = NoSeen]
       /\ Finish(p, WeWorkAppClient_do_send(resp), resp)
  /\ UNCHANGED <<now, _token, _token_expire_time, _token_lock, payload, force,
                 token, posts, forced, refreshed, first, req, ensured, fast,
                 sawEmpty, emptyhist>>
  /\ UNCHANGED <<bot, args, result, hass, ops>>

\* The caller of async_send_message has the result (__init__.py lines
\* 147-150); the coroutine and its locals are gone.
Return(p) ==
  /\ pc[p] = "done"
  /\ pc' = [pc EXCEPT ![p] = "idle"]
  /\ payload' = [payload EXCEPT ![p] = NoPayload]
  /\ force' = [force EXCEPT ![p] = FALSE]
  /\ token' = [token EXCEPT ![p] = NoToken]
  /\ outcome' = [outcome EXCEPT ![p] = Running]
  /\ posts' = [posts EXCEPT ![p] = 0]
  /\ forced' = [forced EXCEPT ![p] = 0]
  /\ refreshed' = [refreshed EXCEPT ![p] = NoToken]
  /\ first' = [first EXCEPT ![p] = "none"]
  /\ final' = [final EXCEPT ![p] = NoResp]
  /\ transport' = [transport EXCEPT ![p] = FALSE]
  /\ req' = [req EXCEPT ![p] = NoReq]
  /\ ensured' = [ensured EXCEPT ![p] = NoToken]
  /\ fast' = [fast EXCEPT ![p] = FALSE]
  /\ seen' = [seen EXCEPT ![p] = NoSeen]
  /\ LeaveEmpty(p)
  /\ UNCHANGED <<now, _token, _token_expire_time, _token_lock>>
  /\ UNCHANGED <<bot, args, result, hass, ops>>

\* The monotonic clock advances.
Tick ==
  /\ NoneDone
  /\ now < MaxTime
  /\ now' = now + 1
  /\ UNCHANGED <<_token, _token_expire_time, _token_lock, callvars, callhist,
                 emptyhist>>
  /\ UNCHANGED <<bot, args, result, hass, ops>>

Next ==
  \/ \E p \in Calls : async_send_message(p)
  \/ \E p \in Calls : _refresh_token_resume(p)
  \/ \E p \in Calls : _refresh_token_response(p)
  \/ \E p \in Calls : _do_send_first(p)
  \/ \E p \in Calls : _do_send_retry(p)
  \/ \E p \in Calls : Return(p)
  \/ Tick

Spec == Init /\ [][Next]_vars

\* Call p goes on from where it is suspended: the lock is handed to it, its
\* network call ends, or its result is handed to its caller.
Step(p) ==
  \/ _refresh_token_resume(p)
  \/ _refresh_token_response(p)
  \/ _do_send_first(p)
  \/ _do_send_retry(p)
  \/ Return(p)

\* The event loop runs every coroutine that is ready, and every network
\* call ends; the clock and new calls are under no obligation.  A ready
\* coroutine is held back only for the step in which another call hands
\* over its result, so the obligation is strong fairness.
Fairness == \A p \in Calls : SF_vars(Step(p))

SpecFair == Init /\ [][Next]_vars /\ Fairness

(***************************************************************************)
(* The application client with two more things that can happen to a call:  *)
(* a token response whose expires_in is 0, and cancellation of the task    *)
(* that runs the call.                                                     *)
(***************************************************************************)
\* Successful token responses with no lifetime (line 193: now + int(0)).
ExpiredTokenResponses == {Resp("json", <<0>>, "t1", <<0>>)}

\* The token request ends with such a response.
_refresh_token_response_expired(p) == RefreshResponse(p, ExpiredTokenResponses)

\* The task of call p is cancelled while it is suspended: CancelledError is
\* raised at the await (line 167, 173-178 or 109-115).  It is no
\* ClientError and no WeWorkError, so no except clause stops it; leaving
\* `async with self._token_lock` releases the lock or gives up the place in
\* its queue.
Cancel(p) ==
  /\ NoneDone
  /\ pc[p] \in {"wait", "get", "send1", "send2"}
  /\ Finish(p, Outcome("CancelledError", NoCode), NoResp)
  /\ _token_lock' = Without(_token_lock, p)
  /\ seen' = [seen EXCEPT ![p] = NoSeen]
  /\ fast' = [fast EXCEPT ![p] = FALSE]
  /\ LeaveEmpty(p)
  /\ UNCHANGED <<now, _token, _token_expire_time, payload, force, token, posts,
                 forced, refreshed, first, transport, req, ensured>>
  /\ UNCHANGED <<bot, args, result, hass, ops>>

NextWide ==
  \/ \E p \in Calls : async_send_message(p)
  \/ \E p \in Calls : _refresh_token_resume(p)
  \/ \E p \in Calls : _refresh_token_response(p)
  \/ \E p \in Calls : _do_send_first(p)
  \/ \E p \in Calls : _do_send_retry(p)
  \/ \E p \in Calls : Return(p)
  \/ Tick
  \/ \E p \in Calls : _refresh_token_response_expired(p)
  \/ \E p \in Calls : Cancel(p)

SpecWide == Init /\ [][NextWide]_vars

(***************************************************************************)
(* The robot client.  It has no attributes that change: a call has only    *)
(* its own locals.                                                         *)
(***************************************************************************)
\* The `data` dicts the robot send calls are made with.
BotRequests ==
  { Req("text", Str(<<"h", "i">>), None, None),
    [Req("text", Str(<<"h", "i">>), None, None)
       EXCEPT !.mentioned_list = Str(<<"u", "|", "v">>)],
    Req("markdown", Str(<<"h", "i">>), None, None),
    [Req("image", None, None, None)
       EXCEPT !.image_base64 = Str(<<"x">>), !.image_md5 = Str(<<"y">>)],
    Req("text", Str(<<>>), None, None),
    [Req("image", None, None, None) EXCEPT !.image_base64 = Str(<<"x">>)],
    Req("file", Str(<<"h", "i">>), None, None) }

\* Lines 205-209: the type check, then _build_payload.
WeWorkBotClient_payload(data) ==
  IF data.message_type \notin SUPPORTED_MESSAGE_TYPES
    THEN [ok |-> FALSE, payload |-> NoPayload]
    ELSE WeWorkBotClient_build_payload(data.message_type, data)

\* Lines 219-225 with the codes of const.py line 42 let through.
WeWorkBotClient_resultSkipRetryable(resp) ==
  IF resp.kind = "ClientError" THEN Outcome("WeWorkError", NoCode)
  ELSE IF resp.kind = "TimeoutError" THEN Outcome("TimeoutError", NoCode)
  ELSE IF CodeTruthy(resp.errcode) /\ ~Retryable(resp.errcode)
    THEN Outcome("WeWorkError", resp.errcode)
  ELSE Outcome("ok", NoCode)

\* Lines 219-225: the exception raised after the POST, or "ok".
WeWorkBotClient_result(resp) ==
  IF resp.kind = "ClientError" THEN Outcome("WeWorkError", NoCode)
  ELSE IF resp.kind = "TimeoutError" THEN Outcome("TimeoutError", NoCode)
  ELSE IF CodeTruthy(resp.errcode) THEN Outcome("WeWorkError", resp.errcode)
  ELSE Outcome("ok", NoCode)

\* WeWorkBotClient.async_send_message from its entry to the POST (lines
\* 205-217).
WeWorkBotClient_async_send_message(p) ==
  /\ bot[p].pc = "idle"
  /\ \E data \in BotRequests :
       LET built == WeWorkBotClient_payload(data)
       IN bot' = [bot EXCEPT ![p] =
                    IF built.ok
                      THEN [@ EXCEPT !.pc = "post", !.req = data,
                                     !.payload = built.payload,
                                     !.posts = @ + 1]
                      ELSE [@ EXCEPT !.pc = "done", !.req = data,
                                     !.outcome = Outcome("WeWorkError", NoCode)]]
  /\ UNCHANGED <<appvars, args, result, hass, ops>>

\* The POST of a robot call ends (lines 218-225): the call ends.
WeWorkBotClient_response(p) ==
  /\ bot[p].pc = "post"
  /\ \E resp \in SendResponses :
       bot' = [bot EXCEPT ![p] =
                 [@ EXCEPT !.pc = "done", !.final = resp,
                           !.outcome = WeWorkBotClient_result(resp)]]
  /\ UNCHANGED <<appvars, args, result, hass, ops>>

\* The caller of the robot call has the result (__init__.py lines 147-150).
BotReturn(p) ==
  /\ bot[p].pc = "done"
  /\ bot' = [bot EXCEPT ![p] = BotIdle]
  /\ UNCHANGED <<appvars, args, result, hass, ops>>

NextBot ==
  \/ \E p \in Calls : WeWorkBotClient_async_send_message(p)
  \/ \E p \in Calls : WeWorkBotClient_response(p)
  \/ \E p \in Calls : BotReturn(p)

SpecBot == Init /\ [][NextBot]_vars

(***************************************************************************)
(* The payload functions, each called once with arguments of a bounded     *)
(* set.                                                                    *)
(***************************************************************************)
\* The strings of at most MaxLen characters over a small alphabet, and None.
Alphabet == {"a", "b", "|", " "}
Strings == UNION {[1..n -> Alphabet] : n \in 0..MaxLen}
OptStrings == {None} \cup {Str(str) : str \in Strings}

\* Recipient and mention strings of the `data` dicts.
Recipients == {None, Str(<<"a">>), Str(<<"|">>), Str(<<"a", "|", "b">>)}
Mentions ==
  {None, Str(<<>>), Str(<<"|">>), Str(<<"u", "|", "v">>),
   Str(<<" ", "u", " ", "|", "|", "v">>)}

\* The `data` dicts the payload builder of the application client is called
\* with (it reads no other key).
AppBuildRequests ==
  { [Req(mt, msg, user, media) EXCEPT !.to_party = party,
                                      !.mentioned_list = ml] :
      mt \in {"text", "markdown", "image", "file"},
      msg \in {None, Str(<<>>), Str(<<"h", "i">>)},
      user \in Recipients,
      party \in {None, Str(<<"p">>)},
      media \in {None, Str(<<"m">>)},
      ml \in {None, Str(<<"u", "|", "v">>)} }

\* The `data` dicts the payload builder of the robot client is called with
\* (it reads no other key).
BotBuildRequests ==
  { [Req(mt, msg, None, None) EXCEPT !.image_base64 = b64,
                                     !.image_md5 = md5,
                                     !.mentioned_list = ml,
                                     !.mentioned_mobile_list = mml] :
      mt \in {"text", "markdown", "image", "file"},
      msg \in {None, Str(<<>>), Str(<<"h", "i">>)},
      b64 \in {None, Str(<<"x">>)},
      md5 \in {None, Str(<<"y">>)},
      ml \in Mentions,
      mml \in {None, Str(<<"1">>)} }

\* The `defaults` of an application client (__init__.py lines 180-186).
DefaultsSets ==
  { [to_user |-> user, to_party |-> None, to_tag |-> tag] :
      user \in {None, Str(<<"a">>), Str(<<"b", "|", "c">>)},
      tag \in {None, Str(<<>>)} }

\* Lines 91-95: the type check, then _build_payload.
WeWorkAppClient_payload(data, defaults) ==
  IF data.message_type \notin SUPPORTED_MESSAGE_TYPES
    THEN [ok |-> FALSE, payload |-> NoPayload]
    ELSE WeWorkAppClient_build_payload(data.message_type, data, defaults)

\* One call of one of the payload functions, not yet made.
InitBuild ==
  /\ AppInit
  /\ bot = [p \in Calls |-> BotIdle]
  /\ result = NoResult
  /\ HassInit
  /\ \/ \E o \in OptStrings, d \in OptStrings :
          args = [fn |-> "_merge_recipient", override |-> o, default |-> d]
     \/ \E v \in OptStrings : args = [fn |-> "_split_optional", value |-> v]
     \/ \E data \in AppBuildRequests, defaults \in DefaultsSets :
          args = [fn |-> "WeWorkAppClient", data |-> data,
                  defaults |-> defaults]
     \/ \E data \in BotBuildRequests :
          args = [fn |-> "WeWorkBotClient", data |-> data]

Call_merge_recipient ==
  /\ args.fn = "_merge_recipient" /\ result = NoResult
  /\ result' = Value(_merge_recipient(args.override, args.default))
  /\ UNCHANGED <<appvars, bot, args, hass, ops>>

Call_split_optional ==
  /\ args.fn = "_split_optional" /\ result = NoResult
  /\ result' = Value(_split_optional(args.value))
  /\ UNCHANGED <<appvars, bot, args, hass, ops>>

Call_WeWorkAppClient_payload ==
  /\ args.fn = "WeWorkAppClient" /\ result = NoResult
  /\ result' = Value(WeWorkAppClient_payload(args.data, args.defaults))
  /\ UNCHANGED <<appvars, bot, args, hass, ops>>

Call_WeWorkBotClient_payload ==
  /\ args.fn = "WeWorkBotClient" /\ result = NoResult
  /\ result' = Value(WeWorkBotClient_payload(args.data))
  /\ UNCHANGED <<appvars, bot, args, hass, ops>>

NextBuild ==
  \/ Call_merge_recipient
  \/ Call_split_optional
  \/ Call_WeWorkAppClient_payload
  \/ Call_WeWorkBotClient_payload

SpecBuild == InitBuild /\ [][NextBuild]_vars

(***************************************************************************)
(* The integration (__init__.py): config entries are set up and unloaded.  *)
(* Neither operation suspends (async_close of line 121 is an empty         *)
(* coroutine, api.py lines 63-64), so each is one step.  Home Assistant    *)
(* sets up an entry that is not loaded and unloads one that is.            *)
(***************************************************************************)
\* hass.services.has_service(DOMAIN, SERVICE_SEND_MESSAGE).
has_service == SERVICE_SEND_MESSAGE \in hass.services

\* The entries with a runtime client in `data`.
Loaded(data) == {entry \in Entries : data[entry] # NoRuntime}

\* Line 123 without `not data`: every unload removes the service.
RemoveServiceAlways(data) == has_service

\* The condition of line 123, on `data` after the pop of line 119.
RemoveService(data) == Loaded(data) = {} /\ has_service

\* async_setup_entry (lines 77-112).
async_setup_entry(entry) ==
  /\ hass.data[entry] = NoRuntime
  /\ LET client == EntryType(entry)
         data == [hass.data EXCEPT ![entry] = client]
         register == ~has_service
     IN /\ register => ops.registers < MaxRegisters
        /\ hass' = [data |-> data,
                    services |-> IF register
                                   THEN hass.services \cup {SERVICE_SEND_MESSAGE}
                                   ELSE hass.services]
        /\ ops' = [ops EXCEPT !.op = "setup", !.entry = entry,
                              !.registered = register, !.removed = FALSE,
                              !.registers = IF register THEN @ + 1 ELSE @]
  /\ UNCHANGED <<appvars, bot, args, result>>

\* async_unload_entry (lines 115-126).
async_unload_entry(entry) ==
  /\ hass.data[entry] # NoRuntime
  /\ LET data == [hass.data EXCEPT ![entry] = NoRuntime]
         remove == RemoveService(data)
     IN /\ hass' = [data |-> data,
                    services |-> IF remove
                                   THEN hass.services \ {SERVICE_SEND_MESSAGE}
                                   ELSE hass.services]
        /\ ops' = [ops EXCEPT !.op = "unload", !.entry = entry,
                              !.registered = FALSE, !.removed = remove,
                              !.removes = IF remove THEN @ + 1 ELSE @]
  /\ UNCHANGED <<appvars, bot, args, result>>

NextHass ==
  \/ \E entry \in Entries : async_setup_entry(entry)
  \/ \E entry \in Entries : async_unload_entry(entry)

SpecHass == Init /\ [][NextHass]_vars

TypeOK ==
  /\ now \in 0..MaxTime
  /\ hass.services \subseteq {SERVICE_SEND_MESSAGE}
  /\ \A entry \in Entries : hass.data[entry] \in {NoRuntime, "app", "bot"}
  /\ \A p \in Calls : pc[p] \in {"idle", "wait", "get", "send1", "send2", "done"}

(***************************************************************************)
(* Properties.                                                             *)
(***************************************************************************)
\* The cached token is usable at this instant (spec 4.2: Valid and
\* now < expires_at - 30 s).
InWindow == TokenTruthy(_token) /\ now < _token_expire_time - TOKEN_MARGIN

\* Call p, which waited for the lock while a token request ended, gets the
\* lock in this step.
GotLock(p) == pc[p] = "wait" /\ pc'[p] # "wait" /\ seen[p].kind # "none"

\* The request is one that validation has to reject (spec 4.1, 4.3).
InvalidRequest(data) ==
  \/ data.message_type \notin {"text", "markdown", "image"}
  \/ data.message_type \in {"text", "markdown"} /\ ~Truthy(data.message)
  \/ /\ ~Truthy(_merge_recipient(data.to_user, Defaults.to_user))
     /\ ~Truthy(_merge_recipient(data.to_party, Defaults.to_party))
     /\ ~Truthy(_merge_recipient(data.to_tag, Defaults.to_tag))
  \/ data.message_type = "image" /\ ~Truthy(data.image_media_id)

\* C1 as stated: when the first token request of the _ensure_token calls
\* that found the cache Empty succeeds with a lifetime above 30 s, these
\* calls send exactly one GET and all return the same token.
C1_Stated ==
  firstGet = "ok" => emptyGets = 1 /\ Cardinality(emptyToks) <= 1

\* C1 amended: the same, provided every one of these calls that waited gets
\* the lock before the clock reaches expires_at - 30 s; the token each of
\* them returns is the one in the cache at that moment.
C1_OneRequestForEmptyCache ==
  /\ [](firstGet = "ok" /\ ~emptyLate =>
          emptyGets = 1 /\ Cardinality(emptyToks) <= 1)
  /\ [][\A p \in Calls :
          (sawEmpty[p] /\ ~force[p] /\ pc[p] \in {"wait", "get"}
             /\ pc'[p] = "send1") => token'[p] = _token']_vars

C1_Witness ==
  /\ firstGet = "ok" /\ ~emptyLate /\ emptyGets = 1
  /\ \E p, q \in Calls :
       /\ p # q
       /\ sawEmpty[p] /\ pc[p] = "send1"
       /\ sawEmpty[q] /\ pc[q] = "send1"

\* C2 as stated: a caller that waited on the lock while a token request was
\* in flight sends no request of its own and ends with the token, or the
\* failure, of that request, whatever its force argument.
C2_Stated ==
  [][\A p \in Calls :
       GotLock(p) =>
         /\ pc'[p] # "get"
         /\ seen[p].kind = "ok" => token'[p] = seen[p].tok
         /\ seen[p].kind = "fail" => pc'[p] = "done" /\ Failed(outcome'[p])]_vars

\* C2 amended: a force=false caller that waited while a token request
\* succeeded, and gets the lock before the clock reaches expires_at - 30 s,
\* returns the token of that request and sends no request; a force=true
\* caller always sends its own request; a force=false caller in any other
\* case (the request failed, or the lock came too late) sends its own
\* request unless the cache holds a token that is still usable.
C2_WaitersUseCachedResult ==
  [][\A p \in Calls :
       GotLock(p) =>
         IF force[p] THEN pc'[p] = "get"
         ELSE IF seen[p].kind = "ok" /\ now < _token_expire_time - TOKEN_MARGIN
           THEN pc'[p] = "send1" /\ token'[p] = seen[p].tok
           ELSE (pc'[p] = "get") <=> ~InWindow]_vars

C2_Witness ==
  \E p \in Calls :
    /\ pc[p] = "send1" /\ ~force[p]
    /\ seen[p].kind = "ok" /\ token[p] = seen[p].tok

\* C3: at most one GET to the token endpoint is in flight at any time.
C3_OneTokenRequestInFlight ==
  Cardinality({p \in Calls : pc[p] = "get"}) <= 1

C3_Witness ==
  \E p, q \in Calls : pc[p] = "get" /\ pc[q] = "wait" /\ force[q]

\* C4 as stated: a retryable answer to the first send is followed by
\* exactly one forced refresh and exactly one retried send; a retryable
\* answer to the retried send ends the call in failure; never more than two
\* POSTs or one forced refresh.
C4_Stated ==
  \A p \in Calls :
    /\ posts[p] <= 2 /\ forced[p] <= 1
    /\ pc[p] = "done" /\ first[p] = "retryable" =>
         forced[p] = 1 /\ posts[p] = 2
    /\ pc[p] = "done" /\ posts[p] = 2 /\ AnswerKind(final[p]) = "retryable" =>
         Failed(outcome[p])

\* C4 amended: the retried send follows exactly when the forced refresh
\* returns a token; when the refresh fails the call ends in failure after
\* its one POST.
C4_OneRefreshOneRetry ==
  \A p \in Calls :
    /\ posts[p] <= 2 /\ forced[p] <= 1
    /\ (first[p] = "retryable") <=> (forced[p] = 1)
    /\ posts[p] = 2 => forced[p] = 1 /\ TokenTruthy(refreshed[p])
    /\ pc[p] = "done" /\ first[p] = "retryable" =>
         /\ (posts[p] = 2) <=> TokenTruthy(refreshed[p])
         /\ posts[p] = 1 => Failed(outcome[p])
    /\ pc[p] = "done" /\ posts[p] = 2 /\ AnswerKind(final[p]) = "retryable" =>
         Failed(outcome[p])

C4_Witness ==
  \E p \in Calls :
    /\ pc[p] = "done" /\ first[p] = "retryable" /\ forced[p] = 1
    /\ posts[p] = 2 /\ AnswerKind(final[p]) = "retryable"

\* C5: the retried send carries the token the forced refresh returned, and
\* when it is answered with errcode 0 the call ends without an error.
C5_RetryUsesRefreshedToken ==
  \A p \in Calls :
    /\ posts[p] = 2 => TokenTruthy(refreshed[p]) /\ token[p] = refreshed[p]
    /\ (pc[p] = "done" /\ first[p] = "retryable" /\ posts[p] = 2
          /\ AnswerKind(final[p]) = "zero") => outcome[p] = Outcome("ok", NoCode)

C5_Witness ==
  \E p \in Calls :
    /\ pc[p] = "done" /\ outcome[p].kind = "ok" /\ posts[p] = 2
    /\ refreshed[p] # ensured[p]

\* C6: a non-zero, non-retryable errcode on the first send ends the call at
\* once with that errcode attached, without a token request or a second
\* POST, and leaves the cached token and expiry as they were.
C6_FatalCodeFailsAtOnce ==
  [][\A p \in Calls :
       (pc[p] = "send1" /\ first'[p] = "other") =>
         /\ pc'[p] = "done"
         /\ final'[p].errcode # <<>>
         /\ outcome'[p] = Outcome("WeWorkError", final'[p].errcode)
         /\ posts'[p] = 1 /\ forced'[p] = 0
         /\ ~Contains(_token_lock', p)
         /\ _token' = _token
         /\ _token_expire_time' = _token_expire_time]_vars

C6_Witness ==
  \E p \in Calls :
    /\ pc[p] = "done" /\ first[p] = "other"
    /\ outcome[p] = Outcome("WeWorkError", <<45009>>)

\* C7: a transport failure of a token request or of a POST ends the call in
\* failure with no further network call; after a transport failure of the
\* first send there is neither a refresh nor a second send.
C7_TransportFailureIsFinal ==
  \A p \in Calls :
    transport[p] =>
      /\ pc[p] = "done" /\ Failed(outcome[p]) /\ IsTransport(final[p])
      /\ ~Contains(_token_lock, p)
      /\ first[p] = "transport" => posts[p] = 1 /\ forced[p] = 0

C7_Witness ==
  \E p \in Calls :
    /\ transport[p] /\ first[p] = "transport"
    /\ final[p].kind = "TimeoutError"

\* C8 as stated: every send call that fails ends with a WeWorkError.
C8_Stated ==
  \A p \in Calls :
    pc[p] = "done" /\ outcome[p].kind # "ok" => outcome[p].kind = "WeWorkError"

\* C9: a call with an unsupported type or an invalid payload fails before
\* any network call: no GET, no POST, the lock untouched, token and expiry
\* unchanged.
C9_ValidationBeforeNetwork ==
  [][\A p \in Calls :
       (pc[p] = "idle" /\ pc'[p] # "idle" /\ InvalidRequest(req'[p])) =>
         /\ pc'[p] = "done" /\ outcome'[p].kind = "WeWorkError"
         /\ posts'[p] = 0 /\ final'[p] = NoResp
         /\ _token_lock' = _token_lock
         /\ _token' = _token
         /\ _token_expire_time' = _token_expire_time]_vars

C9_Witness ==
  \E p \in Calls :
    /\ pc[p] = "done" /\ InvalidRequest(req[p]) /\ posts[p] = 0
    /\ TokenTruthy(_token) /\ ~InWindow

\* C10: _ensure_token returns the cached token, without a request and
\* without the lock, exactly when a token is cached and
\* now < expires_at - 30; otherwise it enters _refresh_token(force=false).
C10_EnsureTokenFastPath ==
  [][\A p \in Calls :
       (pc[p] = "idle" /\ pc'[p] \notin {"idle", "done"}) =>
         IF InWindow
           THEN /\ pc'[p] = "send1" /\ token'[p] = _token
                /\ _token_lock' = _token_lock
           ELSE /\ pc'[p] \in {"get", "wait"} /\ ~force'[p]
                /\ Contains(_token_lock', p)]_vars

C10_Witness ==
  \E p, q \in Calls :
    /\ p # q
    /\ fast[p] /\ pc[p] = "send1"
    /\ fast[q] /\ pc[q] = "send1"

(***************************************************************************)
(* Properties of the payload functions and of the robot client.            *)
(***************************************************************************)
\* The trimmed, non-empty tokens of an optional '|'-separated string.
Tokens(x) == IF x.some THEN StripNonEmpty(Split(x.val)) ELSE <<>>

\* `parts` after `kept`, without what is already there.
RECURSIVE Dedup(_, _)
Dedup(parts, kept) ==
  IF parts = <<>> THEN kept
  ELSE IF Contains(kept, Head(parts)) THEN Dedup(Tail(parts), kept)
  ELSE Dedup(Tail(parts), Append(kept, Head(parts)))

\* The tokens of the override, then those of the default, each once.
Merged(override, default) == Dedup(Tokens(override) \o Tokens(default), <<>>)

\* The list a mention string stands for; absent when no token remains.
MentionList(x) ==
  IF Tokens(x) = <<>> THEN None ELSE [some |-> TRUE, val |-> Tokens(x)]

\* A payload builder of one of the two clients has returned.
Built == args.fn \in {"WeWorkAppClient", "WeWorkBotClient"} /\ result.called

\* C13 as stated: _merge_recipient returns the trimmed tokens of the
\* override followed by those of the default, without duplicates, joined
\* with '|', and an empty or absent result when no token remains.
C13_Stated ==
  (args.fn = "_merge_recipient" /\ result.called) =>
    LET toks == Merged(args.override, args.default)
    IN IF toks = <<>> THEN ~Truthy(result.value)
       ELSE result.value = Str(Join(toks))

\* C14 as stated: building an application payload fails when no merged
\* recipient field holds a recipient, and a built payload carries at least
\* one of touser, toparty, totag with a non-empty recipient token.
C14_Stated ==
  (args.fn = "WeWorkAppClient" /\ result.called) =>
    LET data == args.data
        defaults == args.defaults
        pl == result.value.payload
    IN /\ ( /\ Merged(data.to_user, defaults.to_user) = <<>>
            /\ Merged(data.to_party, defaults.to_party) = <<>>
            /\ Merged(data.to_tag, defaults.to_tag) = <<>> )
          => ~result.value.ok
       /\ result.value.ok =>
            \/ Tokens(pl.touser) # <<>>
            \/ Tokens(pl.toparty) # <<>>
            \/ Tokens(pl.totag) # <<>>

\* C15 as stated: on both clients a text payload built from a non-empty
\* message has msgtype text, the content, and for each mention string the
\* list of its trimmed non-empty tokens in order, omitted when empty.
C15_Stated ==
  (Built /\ args.data.message_type = "text" /\ Truthy(args.data.message)) =>
    LET pl == result.value.payload
    IN /\ args.fn = "WeWorkBotClient" => result.value.ok
       /\ result.value.ok =>
            /\ pl.msgtype = "text"
            /\ pl.content = args.data.message
            /\ pl.mentioned_list = MentionList(args.data.mentioned_list)
            /\ pl.mentioned_mobile_list =
                 MentionList(args.data.mentioned_mobile_list)

\* C16: a robot send call sends at most one POST and no token request, and
\* any non-zero errcode, one of the retryable set included, ends it in
\* failure with that errcode after its one POST.
C16_RobotSendsOnce ==
  /\ _token = NoToken /\ _token_lock = <<>>
  /\ \A p \in Calls :
       /\ bot[p].posts <= 1
       /\ (bot[p].pc = "done" /\ CodeTruthy(bot[p].final.errcode)) =>
            /\ bot[p].posts = 1
            /\ bot[p].outcome = Outcome("WeWorkError", bot[p].final.errcode)

C16_Witness ==
  \E p \in Calls :
    /\ bot[p].pc = "done" /\ bot[p].posts = 1
    /\ bot[p].final.errcode = <<42001>>
    /\ Failed(bot[p].outcome)

\* C17: on both clients a text or markdown request without a message, an
\* application image request without image_media_id, a robot image request
\* without image_base64 or without image_md5, and a request of another
\* message type all fail, and no payload is produced.
C17_ValidationRejects ==
  Built =>
    LET data == args.data
        mt == data.message_type
    IN ( \/ mt \in {"text", "markdown"} /\ ~Truthy(data.message)
         \/ /\ args.fn = "WeWorkAppClient" /\ mt = "image"
            /\ ~Truthy(data.image_media_id)
         \/ /\ args.fn = "WeWorkBotClient" /\ mt = "image"
            /\ (~Truthy(data.image_base64) \/ ~Truthy(data.image_md5))
         \/ mt \notin {"text", "markdown", "image"} )
       => ~result.value.ok /\ result.value.payload = NoPayload

C17_Witness ==
  /\ args.fn = "WeWorkBotClient" /\ result.called
  /\ args.data.message_type = "image"
  /\ Truthy(args.data.image_base64) /\ ~Truthy(args.data.image_md5)
  /\ ~result.value.ok

(***************************************************************************)
(* Properties of the token cache.                                          *)
(***************************************************************************)
\* The cached pair is written in this step.
CacheWritten ==
  _token' # _token \/ _token_expire_time' # _token_expire_time

\* C11 as stated: whenever the pair is assigned the token is non-empty and
\* expires_at is strictly greater than the clock at that moment, whatever
\* expires_in the provider returns.
C11_Stated ==
  [][CacheWritten => TokenTruthy(_token') /\ _token_expire_time' > now']_vars

C18_Stated ==
  \A p \in Calls :
    (pc[p] = "done" /\ outcome[p].kind = "ok") => final[p].errcode = <<0>>

C20_TokenFailureSendsNothing ==
  [][\A p \in Calls :
       /\ posts'[p] > posts[p] => TokenTruthy(token'[p])
       /\ forced'[p] > forced[p] => pc[p] = "send1"
       /\ (pc[p] = "get" /\ ~force[p] /\ pc'[p] = "done") =>
            /\ posts'[p] = 0 /\ forced'[p] = 0
            /\ Failed(outcome'[p])
            /\ ~Contains(_token_lock', p)]_vars

C20_Witness ==
  \E p \in Calls :
    /\ pc[p] = "done" /\ first[p] = "none" /\ posts[p] = 0 /\ forced[p] = 0
    /\ final[p].errcode = <<40001>>
    /\ outcome[p] = Outcome("WeWorkError", <<40001>>)

(***************************************************************************)
(* Termination of the send calls.                                          *)
(***************************************************************************)
\* C21: under fair scheduling, with every network call ending in a response
\* or a failure, every application send call that has suspended (on the
\* token lock, on the token request or on a send) eventually ends, in
\* success or with an exception raised to its caller; in particular no call
\* waits for the token lock forever.
C21_EverySendCallEnds ==
  \A p \in Calls :
    (pc[p] \in {"wait", "get", "send1", "send2"})
      ~> (pc[p] = "done" /\ outcome[p].kind # "none")

\* The token request of one call has ended in a transport failure before
\* any send, the call has ended in failure, and the lock has passed to the
\* call that waited behind it.
C21_Witness ==
  \E p, q \in Calls :
    /\ p # q
    /\ pc[p] = "done"
    /\ Failed(outcome[p])
    /\ posts[p] = 0
    /\ IsTransport(final[p])
    /\ pc[q] = "wait"
    /\ _token_lock = <<q>>

(***************************************************************************)
(* The send_message service and the loaded entries.                        *)
(***************************************************************************)
\* C22: after any sequence of async_setup_entry and async_unload_entry on
\* distinct entries, the send_message service is registered exactly when
\* some entry has a runtime client in hass.data; async_register is called
\* once per registration (never while the service is registered), only by
\* the setup of the first loaded entry, and async_remove only by the unload
\* of the last loaded entry.
C22_ServiceIffEntryLoaded ==
  /\ has_service <=> Loaded(hass.data) # {}
  /\ ops.registers = ops.removes + (IF has_service THEN 1 ELSE 0)
  /\ ops.registered => ops.op = "setup" /\ Loaded(hass.data) = {ops.entry}
  /\ ops.removed => ops.op = "unload" /\ Loaded(hass.data) = {}

\* The service has been removed and registered again, a second entry was
\* set up, and the unload of one of the two has left the service in place.
C22_Witness ==
  /\ ops.op = "unload"
  /\ ~ops.removed
  /\ ops.registers = 2
  /\ Cardinality(Loaded(hass.data)) = 1
  /\ has_service

====
